---- MODULE Spec2Model ----
(***************************************************************************)
(* ReconnectingWebSocket (src/reconnecting-websocket.js): the reconnect    *)
(* state machine of one instance, its two timers, the underlying           *)
(* WebSocket objects it creates and the $timeout queue through which most  *)
(* caller callbacks are delivered.                                         *)
(*                                                                         *)
(* One action is one JavaScript task (run to completion): a socket event   *)
(* handler, a timer callback, a deferred $timeout callback, or a call the  *)
(* caller makes on the public API.                                         *)
(*                                                                         *)
(* Durations are in units of 1250 ms, so that the default                  *)
(* initialReconnectInterval (5000 ms) is 4 and the random factor           *)
(* R = Math.random() + 1 can be drawn in quarters.                         *)
(***************************************************************************)
EXTENDS Integers, Sequences, FiniteSets, TLC

\* ------------------------------------------------------------------ bounds
\* underlying connections created in one behaviour
MaxAttempts == 3
\* callbacks waiting in the $timeout queue before a message/error is accepted
MaxDeferred == 2

\* ------------------------------------------------------- program constants
\* WebSocket.readyState values
CONNECTING == 0
OPEN == 1
CLOSING == 2
CLOSED == 3
\* `ws = null` / `var ws;`
Null == 0
\* this.reconnectInterval = this.initialReconnectInterval = 5000 (4 * 1250 ms)
DefaultInitialReconnectInterval == 4
\* this.maxReconnectInterval = 5 * 60 * 1000 (240 * 1250 ms)
DefaultMaxReconnectInterval == 240
\* denominator of the fixed-point random factor: R = RNum / RScale
RScale == 4
\* RNum / RScale ranges over [1, 2): Math.random() + 1
RandomFactors == {4, 5, 6, 7}
\* the url handed to the constructor (a target is required)
url == "ws://host"
\* values the caller may assign to (initialReconnectInterval, maxReconnectInterval)
TunableChoices == {<<4, 240>>, <<4, 6>>, <<8, 6>>, <<8, 240>>}
\* payloads of send() and of message events
Payloads == {"m"}

VARIABLES
  ws,                      \* var ws: index into socks, or Null
  socks,                   \* every WebSocket created so far, with its closure
  timeouts,                \* sockets whose connect-timeout timer is armed
  backoffTimers,           \* pending retry timers (their delays)
  deferred,                \* the $timeout queue, oldest first
  readyState,              \* self.readyState
  forcedClose,             \* var forcedClose
  timedOut,                \* var timedOut
  retries,                 \* var retries
  reconnectInterval,       \* self.reconnectInterval
  initialReconnectInterval,\* self.initialReconnectInterval
  maxReconnectInterval,    \* self.maxReconnectInterval
  lastEvent,               \* history: the task that ran last and what it did
  hist                     \* history: counters and flags the properties read

vars == <<ws, socks, timeouts, backoffTimers, deferred, readyState, forcedClose,
          timedOut, retries, reconnectInterval, initialReconnectInterval,
          maxReconnectInterval, lastEvent, hist>>

\* ------------------------------------------------------------ pure helpers
Min(a, b) == IF a <= b THEN a ELSE b

RECURSIVE Pow(_, _)
\* Math.pow(F, N)
Pow(F, N) == IF N = 0 THEN 1 ELSE F * Pow(F, N - 1)

\* JavaScript truthiness of a string
Truthy(s) == s # ""

\* Math.min(R * T * Math.pow(F, N), M) with R = RNum / RScale
BackoffDelay_NoCeiling(RNum, T, N, M) == (RNum * T * Pow(2, N)) \div RScale
BackoffDelay(RNum, T, N, M) == Min((RNum * T * Pow(2, N)) \div RScale, M)

\* resetReconnectInterval: the value given to self.reconnectInterval
ResetInterval_Keep(current, initial) == current
ResetInterval(current, initial) == initial

\* resetReconnectInterval: the value given to retries
ResetRetries(n) == 0

\* connect(url): the constructor passes the url as reconnectAttempt
InitialReconnectAttempt_False == FALSE
InitialReconnectAttempt == Truthy(url)

\* if (!(reconnectAttempt || timedOut)): is onclose reported on a retry-path close
ReportClose_Always(reconnectAttempt, timedOutNow) == TRUE
ReportClose(reconnectAttempt, timedOutNow) == ~(reconnectAttempt \/ timedOutNow)

\* if (forcedClose) ... else { do retry }
DoRetry_Always(forced) == TRUE
DoRetry_Never(forced) == FALSE
DoRetry(forced) == ~forced

\* setTimeout(function() { connect(true); ... }, self.reconnectInterval)
ScheduleRetry_Twice(timers, delay) == timers \o <<delay, delay>>
ScheduleRetry(timers, delay) == Append(timers, delay)

\* this.close: forcedClose = true (only inside `if (ws)`)
CloseSetsForced_Always(hasWs) == TRUE
CloseSetsForced(hasWs) == hasWs

\* this.send: `if (ws)` decides whether ws.send(data) is called
SendForwards_Inverted(hasWs) == ~hasWs
SendForwards(hasWs) == hasWs

\* this.refresh: forcedClose after the call (refresh does not assign it)
RefreshForced_LikeClose(forced) == TRUE
RefreshForced(forced) == forced

\* clearTimeout(timeout) in ws.onopen and ws.onclose of the connection s
ClearTimeout_Noop(timers, s) == timers
ClearTimeout(timers, s) == timers \ {s}

\* self.onreconnect(retries + 1, ...): the attempt number handed over
ReconnectAttemptNumber_NoPlusOne(r) == r
ReconnectAttemptNumber(r) == r + 1

\* WebSocket.close() of the host: CONNECTING/OPEN become CLOSING, the close
\* event is queued as a later task; CLOSING/CLOSED are left alone
UnderlyingClose(st) == IF st \in {CONNECTING, OPEN} THEN CLOSING ELSE st

\* a $timeout(fn) queue entry
Cb(name, sock, data) == [cb |-> name, sock |-> sock, data |-> data]

\* ws.onmessage / ws.onerror: what the handler hands to $timeout
MessageCallbacks(s, d) == <<Cb("onmessage", s, d)>>
ErrorCallbacks_AsClose(s) == <<Cb("onclose", s, "")>>
ErrorCallbacks(s) == <<Cb("onerror", s, "")>>

\* names of a list of queue entries
RECURSIVE Names(_)
Names(q) == IF q = <<>> THEN <<>> ELSE <<Head(q).cb>> \o Names(Tail(q))

\* how often name occurs in a list of names
RECURSIVE Count(_, _)
Count(names, name) ==
  IF names = <<>> THEN 0
  ELSE (IF Head(names) = name THEN 1 ELSE 0) + Count(Tail(names), name)

\* the record of the task that ran last
Ev(op, sock) ==
  [op |-> op, sock |-> sock, ra |-> FALSE, opened |-> FALSE, cause |-> "none",
   forced |-> FALSE, emits |-> <<>>, scheduled |-> 0, result |-> "ok", data |-> "",
   n |-> 0, ms |-> 0, direct |-> FALSE]

\* a connection after its close event: its handlers never run again
ClosedSock == [st |-> CLOSED, reconnectAttempt |-> FALSE, opened |-> FALSE, cause |-> "none"]

\* underlying connections whose close event has not been handled
Live == {s \in 1..Len(socks) : socks[s].st # CLOSED}

\* ------------------------------------------------------------------- state
\* var connect = function (reconnectAttempt): new socket, readyState,
\* direct onconnecting, timeout timer armed
Connect(reconnectAttempt) ==
  LET s == Len(socks) + 1 IN
  /\ socks' = Append(socks, [st |-> CONNECTING, reconnectAttempt |-> reconnectAttempt,
                             opened |-> FALSE, cause |-> "none"])
  /\ ws' = s
  /\ readyState' = CONNECTING
  /\ timeouts' = timeouts \cup {s}

\* the instance when the constructor returns: defaults set, connect(url) done
Init ==
  /\ socks = <<[st |-> CONNECTING, reconnectAttempt |-> InitialReconnectAttempt,
                opened |-> FALSE, cause |-> "none"]>>
  /\ ws = 1
  /\ readyState = CONNECTING
  /\ timeouts = {1}
  /\ backoffTimers = <<>>
  /\ deferred = <<>>
  /\ forcedClose = FALSE
  /\ timedOut = FALSE
  /\ retries = 0
  /\ reconnectInterval = DefaultInitialReconnectInterval
  /\ initialReconnectInterval = DefaultInitialReconnectInterval
  /\ maxReconnectInterval = DefaultMaxReconnectInterval
  /\ lastEvent = [Ev("construct", 1) EXCEPT !.emits = <<"onconnecting">>, !.direct = TRUE]
  /\ hist = [closeCalled |-> FALSE, closesAfterForce |-> 0,
             computed |-> FALSE, tuned |-> FALSE, fresh |-> TRUE, failures |-> 0]

\* ------------------------------------------------------------ socket events
\* ws.onopen = function(event) {...} of the connection s
WsOpen(s) ==
  /\ s \in 1..Len(socks)
  /\ socks[s].st = CONNECTING
  /\ IF ws = Null
     THEN \* `ws.readyState` throws before anything else is done
          /\ socks' = [socks EXCEPT ![s].st = OPEN]
          /\ lastEvent' = [Ev("open", s) EXCEPT !.result = "TypeError"]
          /\ UNCHANGED <<ws, timeouts, backoffTimers, deferred, readyState, forcedClose,
                         timedOut, retries, reconnectInterval, initialReconnectInterval,
                         maxReconnectInterval, hist>>
     ELSE /\ socks' = [socks EXCEPT ![s].st = OPEN, ![s].reconnectAttempt = FALSE,
                                    ![s].opened = TRUE]
          /\ readyState' = socks'[ws].st
          /\ timeouts' = ClearTimeout(timeouts, s)
          /\ retries' = ResetRetries(retries)
          /\ reconnectInterval' = ResetInterval(reconnectInterval, initialReconnectInterval)
          /\ deferred' = Append(deferred, Cb("onopen", s, ""))
          /\ lastEvent' = [Ev("open", s) EXCEPT !.ra = socks[s].reconnectAttempt,
                                                !.emits = <<"onopen">>]
          /\ hist' = [hist EXCEPT !.tuned = FALSE, !.fresh = TRUE, !.failures = 0]
          /\ UNCHANGED <<ws, backoffTimers, forcedClose, timedOut,
                         initialReconnectInterval, maxReconnectInterval>>

\* the callbacks the retry branch of ws.onclose hands to $timeout, in order
RetryCallbacks(s, reconnectAttempt, timedOutNow) ==
  <<Cb("onconnecting", 0, "")>>
  \o (IF ReportClose(reconnectAttempt, timedOutNow) THEN <<Cb("onclose", s, "")>> ELSE <<>>)
  \o <<Cb("onreconnect", 0, "")>>

\* ws.onclose = function(event) {...} of the connection s: the transport
\* closed it, or finished closing it after close() was called on it
WsClose(s) ==
  /\ s \in 1..Len(socks)
  /\ socks[s].st # CLOSED
  /\ socks' = [socks EXCEPT ![s] = ClosedSock]
  /\ IF ws = Null
     THEN \* `ws.readyState` throws before anything else is done
          /\ lastEvent' = [Ev("close", s) EXCEPT !.result = "TypeError"]
          /\ UNCHANGED <<ws, timeouts, backoffTimers, deferred, readyState, forcedClose,
                         timedOut, retries, reconnectInterval, initialReconnectInterval,
                         maxReconnectInterval, hist>>
     ELSE /\ timeouts' = ClearTimeout(timeouts, s)
          /\ ws' = Null
          /\ IF DoRetry(forcedClose)
             THEN /\ readyState' = CONNECTING
                  /\ deferred' = deferred \o RetryCallbacks(s, socks[s].reconnectAttempt, timedOut)
                  /\ backoffTimers' = ScheduleRetry(backoffTimers, reconnectInterval)
                  /\ hist' = [hist EXCEPT !.failures = @ + 1]
             ELSE /\ readyState' = socks'[ws].st
                  /\ hist' = [hist EXCEPT !.closesAfterForce = @ + 1]
                  /\ UNCHANGED <<deferred, backoffTimers>>
          /\ lastEvent' = [Ev("close", s) EXCEPT
                             !.ra = socks[s].reconnectAttempt,
                             !.opened = socks[s].opened,
                             !.cause = socks[s].cause,
                             !.forced = forcedClose,
                             !.emits = IF DoRetry(forcedClose)
                                       THEN Names(RetryCallbacks(s, socks[s].reconnectAttempt, timedOut))
                                       ELSE <<"onclose">>,
                             !.direct = ~DoRetry(forcedClose),
                             !.scheduled = Len(backoffTimers') - Len(backoffTimers)]
          /\ UNCHANGED <<forcedClose, timedOut, retries, reconnectInterval,
                         initialReconnectInterval, maxReconnectInterval>>

\* ws.onmessage = function(event) {...}
WsMessage(s, d) ==
  /\ s \in 1..Len(socks)
  /\ socks[s].st = OPEN
  /\ Len(deferred) < MaxDeferred
  /\ deferred' = deferred \o MessageCallbacks(s, d)
  /\ lastEvent' = [Ev("message", s) EXCEPT !.emits = Names(MessageCallbacks(s, d)),
                                           !.data = d]
  /\ UNCHANGED <<ws, socks, timeouts, backoffTimers, readyState, forcedClose, timedOut,
                 retries, reconnectInterval, initialReconnectInterval,
                 maxReconnectInterval, hist>>

\* ws.onerror = function(event) {...}
WsError(s) ==
  /\ s \in 1..Len(socks)
  /\ socks[s].st # CLOSED
  /\ Len(deferred) < MaxDeferred
  /\ deferred' = deferred \o ErrorCallbacks(s)
  /\ lastEvent' = [Ev("error", s) EXCEPT !.emits = Names(ErrorCallbacks(s))]
  /\ UNCHANGED <<ws, socks, timeouts, backoffTimers, readyState, forcedClose, timedOut,
                 retries, reconnectInterval, initialReconnectInterval,
                 maxReconnectInterval, hist>>

\* ------------------------------------------------------------------ timers
\* the connect-timeout callback armed by connect for the connection s:
\* timedOut = true; localWs.close(); timedOut = false. close() only starts
\* the closing; the close event is handled in a later task.
TimeoutFire(s) ==
  /\ s \in timeouts
  /\ timeouts' = timeouts \ {s}
  /\ socks' = [socks EXCEPT ![s].st = UnderlyingClose(@),
                            ![s].cause = IF socks[s].st \in {CONNECTING, OPEN}
                                         THEN "timeout" ELSE @]
  /\ timedOut' = FALSE
  /\ lastEvent' = Ev("timeout", s)
  /\ UNCHANGED <<ws, backoffTimers, deferred, readyState, forcedClose, retries,
                 reconnectInterval, initialReconnectInterval, maxReconnectInterval, hist>>

\* the $timeout callbacks of a close handler were registered (delay 0) before
\* its retry timer, so the host runs them before the retry timer
TimerOrder == deferred = <<>>

\* the retry timer: connect(true); updateReconnectInterval();
BackoffFire ==
  /\ backoffTimers # <<>>
  /\ TimerOrder
  /\ Len(socks) < MaxAttempts
  /\ backoffTimers' = Tail(backoffTimers)
  /\ Connect(TRUE)
  /\ \E RNum \in RandomFactors :
       reconnectInterval' = BackoffDelay(RNum, initialReconnectInterval, retries,
                                         maxReconnectInterval)
  /\ retries' = retries + 1
  /\ lastEvent' = [Ev("retry", Len(socks) + 1) EXCEPT !.ra = TRUE,
                                                      !.emits = <<"onconnecting">>,
                                                      !.direct = TRUE]
  /\ hist' = [hist EXCEPT !.computed = TRUE, !.tuned = FALSE]
  /\ UNCHANGED <<deferred, forcedClose, timedOut, initialReconnectInterval,
                 maxReconnectInterval>>

\* a callback handed to $timeout runs; onreconnect reads retries and
\* reconnectInterval only now
Deliver ==
  /\ deferred # <<>>
  /\ deferred' = Tail(deferred)
  /\ LET h == Head(deferred) IN
       /\ hist' = IF h.cb = "onclose" /\ forcedClose
                  THEN [hist EXCEPT !.closesAfterForce = @ + 1] ELSE hist
       /\ lastEvent' = [Ev("deliver", h.sock) EXCEPT
                          !.emits = <<h.cb>>, !.data = h.data,
                          !.n = IF h.cb = "onreconnect"
                                THEN ReconnectAttemptNumber(retries) ELSE 0,
                          !.ms = IF h.cb = "onreconnect" THEN reconnectInterval ELSE 0]
  /\ UNCHANGED <<ws, socks, timeouts, backoffTimers, readyState, forcedClose, timedOut,
                 retries, reconnectInterval, initialReconnectInterval,
                 maxReconnectInterval>>

\* ------------------------------------------------------------ the public API
\* ws.send(data) of the host: a call on null throws TypeError, a CONNECTING
\* socket throws InvalidStateError, an OPEN one transmits, a CLOSING or
\* CLOSED one discards the data
UnderlyingSend(w) ==
  IF w = Null THEN "TypeError"
  ELSE IF socks[w].st = CONNECTING THEN "InvalidStateError"
  ELSE IF socks[w].st = OPEN THEN "sent"
  ELSE "discarded"

\* this.send = function(data)
Send(d) ==
  /\ lastEvent' = [Ev("send", ws) EXCEPT
                     !.data = d,
                     !.result = IF ~SendForwards(ws # Null) THEN "INVALID_STATE_ERR"
                                ELSE UnderlyingSend(ws)]
  /\ UNCHANGED <<ws, socks, timeouts, backoffTimers, deferred, readyState, forcedClose,
                 timedOut, retries, reconnectInterval, initialReconnectInterval,
                 maxReconnectInterval, hist>>

\* this.close = function()
Close ==
  /\ forcedClose' = IF CloseSetsForced(ws # Null) THEN TRUE ELSE forcedClose
  /\ socks' = IF ws # Null
              THEN [socks EXCEPT ![ws].st = UnderlyingClose(@),
                                 ![ws].cause = IF socks[ws].st \in {CONNECTING, OPEN}
                                               THEN "close" ELSE @]
              ELSE socks
  /\ hist' = [hist EXCEPT !.closeCalled = TRUE,
                          !.closesAfterForce = IF ws # Null THEN 0 ELSE @]
  /\ lastEvent' = [Ev("closeCall", ws) EXCEPT !.result = IF ws # Null THEN "ok" ELSE "noop"]
  /\ UNCHANGED <<ws, timeouts, backoffTimers, deferred, readyState, timedOut, retries,
                 reconnectInterval, initialReconnectInterval, maxReconnectInterval>>

\* this.refresh = function()
Refresh ==
  /\ socks' = IF ws # Null
              THEN [socks EXCEPT ![ws].st = UnderlyingClose(@),
                                 ![ws].cause = IF socks[ws].st \in {CONNECTING, OPEN}
                                               THEN "refresh" ELSE @]
              ELSE socks
  /\ forcedClose' = RefreshForced(forcedClose)
  /\ lastEvent' = [Ev("refreshCall", ws) EXCEPT !.result = IF ws # Null THEN "ok" ELSE "noop"]
  /\ UNCHANGED <<ws, timeouts, backoffTimers, deferred, readyState, timedOut,
                 retries, reconnectInterval, initialReconnectInterval,
                 maxReconnectInterval, hist>>

\* "These can be altered by calling code": the caller assigns
\* initialReconnectInterval and maxReconnectInterval
SetTunables(t) ==
  /\ t # <<initialReconnectInterval, maxReconnectInterval>>
  /\ initialReconnectInterval' = t[1]
  /\ maxReconnectInterval' = t[2]
  /\ hist' = [hist EXCEPT !.tuned = TRUE, !.fresh = FALSE]
  /\ lastEvent' = Ev("tune", 0)
  /\ UNCHANGED <<ws, socks, timeouts, backoffTimers, deferred, readyState, forcedClose,
                 timedOut, retries, reconnectInterval>>

\* ----------------------------------------------------------- specification
Next ==
  \/ \E s \in 1..MaxAttempts : WsOpen(s)
  \/ \E s \in 1..MaxAttempts : WsClose(s)
  \/ \E s \in 1..MaxAttempts, d \in Payloads : WsMessage(s, d)
  \/ \E s \in 1..MaxAttempts : WsError(s)
  \/ \E s \in 1..MaxAttempts : TimeoutFire(s)
  \/ BackoffFire
  \/ Deliver
  \/ \E d \in Payloads : Send(d)
  \/ Close
  \/ Refresh
  \/ \E t \in TunableChoices : SetTunables(t)

Spec == Init /\ [][Next]_vars

\* the transport completes a close that close() started on the connection s
TransportCloses(s) == socks[s].st = CLOSING /\ WsClose(s)

\* armed timers fire, queued $timeout callbacks run, and a connection on
\* which close() was called gets its close event
Fairness ==
  /\ WF_vars(BackoffFire)
  /\ WF_vars(Deliver)
  /\ WF_vars(\E s \in 1..MaxAttempts : TimeoutFire(s))
  /\ WF_vars(\E s \in 1..MaxAttempts : s \in 1..Len(socks) /\ TransportCloses(s))

LiveSpec == Spec /\ Fairness

\* ---------------------------------------------------------------- properties
\* the close handler of a connection ran to its end in the last task
CloseHandled == lastEvent.op = "close" /\ lastEvent.result = "ok"

\* C1: once close() has been called with an underlying connection present,
\* no new connection is created, the caller gets onclose exactly once (none
\* before the close event is handled, one from then on, and that moment
\* comes), and readyState is CLOSED from the handling of the close event on.
C1_ForcedCloseTerminal ==
  /\ [](forcedClose =>
          /\ ws # Null => hist.closesAfterForce = 0 /\ socks[ws].st = CLOSING
          /\ ws = Null => hist.closesAfterForce = 1 /\ readyState = CLOSED)
  /\ [][forcedClose => Len(socks') = Len(socks)]_vars
  /\ (forcedClose ~> (ws = Null /\ hist.closesAfterForce = 1))

C1_Witness ==
  /\ forcedClose /\ ws = Null /\ CloseHandled /\ lastEvent.forced
  /\ lastEvent.emits = <<"onclose">>

\* C2: after any call of close(), in whatever state it was made, no new
\* underlying connection is created.
C2_CloseAlwaysTerminal == [][hist.closeCalled => Len(socks') = Len(socks)]_vars

\* C3: at most one underlying connection awaits its close event, and a new
\* connection is created only when none does.
C3_OneLiveConnection ==
  /\ [](Cardinality(Live) <= 1)
  /\ [][Len(socks') > Len(socks) => Live = {}]_vars

C3_Witness == Len(socks) >= 3 /\ Cardinality(Live) = 1 /\ lastEvent.op = "retry"

\* C4: an unplanned close (no close(), no timeout, no refresh()) of a
\* connection that had opened, or of the constructor's first attempt, hands
\* exactly one onclose to the caller.
C4_UnplannedCloseReported ==
  (CloseHandled /\ ~lastEvent.forced /\ lastEvent.cause = "none"
     /\ (lastEvent.opened \/ lastEvent.sock = 1))
  => Count(lastEvent.emits, "onclose") = 1

\* C5: when the connection of a reconnect attempt closes without having
\* opened and close() was not called, the close handler queues onconnecting
\* and onreconnect once each, no onclose, and arms exactly one retry timer.
C5_SilentRetryClose ==
  (CloseHandled /\ ~lastEvent.forced /\ lastEvent.sock > 1 /\ ~lastEvent.opened)
  => /\ lastEvent.emits = <<"onconnecting", "onreconnect">>
     /\ Len(deferred) >= 2
     /\ Names(SubSeq(deferred, Len(deferred) - 1, Len(deferred))) = lastEvent.emits
     /\ lastEvent.scheduled = 1
     /\ Len(backoffTimers) = 1

C5_Witness ==
  /\ CloseHandled /\ ~lastEvent.forced /\ lastEvent.sock > 1 /\ ~lastEvent.opened
  /\ lastEvent.cause = "none"

\* C6: the connect timeout puts its attempt's connection into CLOSING, and
\* the close that follows (close() not having been called) takes the retry
\* path: readyState CONNECTING, onconnecting and onreconnect queued, one
\* retry timer armed, no onclose; for the first attempt and for retries.
C6_TimeoutTakesRetryPath ==
  /\ lastEvent.op = "timeout" => socks[lastEvent.sock].st = CLOSING
  /\ (CloseHandled /\ ~lastEvent.forced /\ lastEvent.cause = "timeout")
     => /\ readyState = CONNECTING
        /\ lastEvent.emits = <<"onconnecting", "onreconnect">>
        /\ lastEvent.scheduled = 1
        /\ Len(backoffTimers) = 1

C6_Witness ==
  CloseHandled /\ ~lastEvent.forced /\ lastEvent.cause = "timeout" /\ lastEvent.sock = 1

\* C7: after every close that was not forced a new connection is created,
\* no connection stays CONNECTING for ever (the connect timeout starts its
\* close when nothing else ends the attempt), and a connection being closed
\* reaches its close event; MaxAttempts bounds the attempts of a run.
C7_NeverGivesUp ==
  /\ (CloseHandled /\ ~lastEvent.forced /\ Len(socks) < MaxAttempts) ~> (ws # Null)
  /\ (ws # Null /\ socks[ws].st = CONNECTING) ~> (ws = Null \/ socks[ws].st # CONNECTING)
  /\ (ws # Null /\ socks[ws].st = CLOSING) ~> (ws = Null)

C7_Witness ==
  /\ lastEvent.op = "retry" /\ Len(socks) >= 3 /\ ~forcedClose /\ ~hist.closeCalled

\* C8: right after an open event has been handled, retries is 0 and
\* reconnectInterval is initialReconnectInterval.
C8_OpenResetsBackoff ==
  (lastEvent.op = "open" /\ lastEvent.result = "ok")
  => retries = 0 /\ reconnectInterval = initialReconnectInterval

C8_Witness == lastEvent.op = "open" /\ lastEvent.result = "ok" /\ lastEvent.sock >= 3

\* C9: in a run of failed cycles from a fresh state (construction or an open,
\* tunables untouched since) with initialReconnectInterval <= maxReconnectInterval,
\* each backoff computation does not lower reconnectInterval, keeps it at most
\* maxReconnectInterval, and puts it in [T * 2^N, 2 * T * 2^N] clipped to the
\* ceiling, N being retries before the computation.
C9_BackoffMonotoneBounded ==
  [][(retries' = retries + 1 /\ hist.fresh
        /\ initialReconnectInterval <= maxReconnectInterval)
     => /\ reconnectInterval' >= reconnectInterval
        /\ reconnectInterval' <= maxReconnectInterval
        /\ reconnectInterval' >= Min(initialReconnectInterval * Pow(2, retries),
                                     maxReconnectInterval)
        /\ reconnectInterval' <= Min(2 * initialReconnectInterval * Pow(2, retries),
                                     maxReconnectInterval)]_vars

C9_Witness ==
  /\ lastEvent.op = "retry" /\ hist.fresh /\ retries >= 2
  /\ initialReconnectInterval < maxReconnectInterval
  /\ reconnectInterval = maxReconnectInterval

\* C10 as claimed: retries >= 0, and after a first backoff computation
\* reconnectInterval is within [initialReconnectInterval, maxReconnectInterval].
C10_IntervalInRange ==
  /\ retries >= 0
  /\ hist.computed => /\ initialReconnectInterval <= reconnectInterval
                      /\ reconnectInterval <= maxReconnectInterval

\* C10 amended: the range holds when initialReconnectInterval <= maxReconnectInterval
\* and the caller has changed neither since reconnectInterval was last assigned.
C10_IntervalInRangeUntuned ==
  /\ retries >= 0
  /\ (hist.computed /\ ~hist.tuned /\ initialReconnectInterval <= maxReconnectInterval)
     => /\ initialReconnectInterval <= reconnectInterval
        /\ reconnectInterval <= maxReconnectInterval

C10_Witness ==
  /\ hist.computed /\ ~hist.tuned /\ retries >= 1
  /\ initialReconnectInterval < maxReconnectInterval
  /\ reconnectInterval = maxReconnectInterval

\* the variables of the instance and its timers and queue (all but the history)
core == <<ws, socks, timeouts, backoffTimers, deferred, readyState, forcedClose,
          timedOut, retries, reconnectInterval, initialReconnectInterval,
          maxReconnectInterval>>

\* C11: send() with no underlying connection fails with INVALID_STATE_ERR,
\* hands nothing to a socket, queues nothing and changes no state; with a
\* connection reference, and only then, the payload goes to ws.send of that
\* connection (whose outcome is the socket's own).
C11_SendWithoutConnection ==
  [][lastEvent'.op = "send" =>
       /\ ws = Null => /\ lastEvent'.result = "INVALID_STATE_ERR"
                       /\ UNCHANGED <<core, hist>>
       /\ ws # Null => /\ lastEvent'.sock = ws
                       /\ lastEvent'.result = UnderlyingSend(ws)
                       /\ lastEvent'.result \in {"InvalidStateError", "sent", "discarded"}
       /\ lastEvent'.data \in Payloads]_vars

C11_Witness ==
  /\ lastEvent.op = "send" /\ lastEvent.result = "INVALID_STATE_ERR"
  /\ ws = Null /\ backoffTimers # <<>>

\* C12: refresh() with a connection present starts closing it, leaves
\* forcedClose, retries and reconnectInterval as they are, nothing changes
\* retries or reconnectInterval while the connection is closing, and a new
\* connection follows (unless close() is called in between; MaxAttempts
\* bounds the attempts of a run).
C12_RefreshReconnects ==
  /\ [][(lastEvent'.op = "refreshCall" /\ ws # Null)
        => /\ socks'[ws].st = CLOSING
           /\ UNCHANGED <<ws, forcedClose, retries, reconnectInterval>>]_vars
  /\ [][(ws # Null /\ socks[ws].st = CLOSING)
        => UNCHANGED <<retries, reconnectInterval>>]_vars
  /\ (lastEvent.op = "refreshCall" /\ lastEvent.result = "ok" /\ ~forcedClose
        /\ Len(socks) < MaxAttempts)
     ~> (lastEvent.op = "retry" \/ forcedClose)

C12_Witness ==
  /\ CloseHandled /\ lastEvent.cause = "refresh" /\ ~lastEvent.forced /\ lastEvent.opened
  /\ backoffTimers # <<>> /\ retries = 0

\* C13: refresh() called during the pause between attempts (no connection,
\* retry timer pending) starts a new connection at once.
C13_RefreshDuringPause ==
  (lastEvent.op = "refreshCall" /\ lastEvent.sock = Null /\ ~forcedClose)
  => ws # Null /\ backoffTimers = <<>>

\* C14: a message or error event of a connection queues exactly one
\* onmessage / onerror carrying that event and changes neither retries,
\* reconnectInterval, readyState, forcedClose, timedOut, ws nor a timer; the
\* queued callback reaches the caller with the same event.
C14_PassThrough ==
  /\ [][lastEvent'.op \in {"message", "error"}
        => /\ deferred' = Append(deferred,
                                 Cb(IF lastEvent'.op = "message" THEN "onmessage"
                                                                 ELSE "onerror",
                                    lastEvent'.sock, lastEvent'.data))
           /\ UNCHANGED <<retries, reconnectInterval, readyState, forcedClose, timedOut,
                          ws, timeouts, backoffTimers>>]_vars
  /\ [][(lastEvent'.op = "deliver" /\ deferred # <<>>
           /\ Head(deferred).cb \in {"onmessage", "onerror"})
        => /\ lastEvent'.emits = <<Head(deferred).cb>>
           /\ lastEvent'.sock = Head(deferred).sock
           /\ lastEvent'.data = Head(deferred).data]_vars

C14_Witness ==
  /\ lastEvent.op = "error" /\ ws # Null /\ retries >= 1 /\ backoffTimers = <<>>
  /\ deferred # <<>> /\ deferred[Len(deferred)].cb = "onerror"

\* C15: readyState is the state of the underlying connection whenever one
\* exists, and CONNECTING when none exists and a retry is pending.
C15_ReadyStateMirrors ==
  /\ ws # Null => readyState = socks[ws].st
  /\ (ws = Null /\ backoffTimers # <<>>) => readyState = CONNECTING

\* C16: no callback is called directly by connect or by a socket event
\* handler; every one goes through the $timeout queue (and so none overtakes
\* a queued one).
C16_AllCallbacksDeferred ==
  /\ ~lastEvent.direct
  /\ lastEvent.direct => deferred = <<>>

\* the forced close has completed
Terminal == forcedClose /\ ws = Null

\* C17: once a forced close has completed no timer is pending, no state
\* variable of the instance changes and no callback reaches the caller.
C17_TerminalAfterForcedClose ==
  /\ [](Terminal => timeouts = {} /\ backoffTimers = <<>>)
  /\ [][Terminal => /\ UNCHANGED <<retries, reconnectInterval, readyState, forcedClose, ws>>
                    /\ lastEvent'.emits = <<>>]_vars

\* C18: a connect-timeout timer is armed only for a connection whose open and
\* close events have not been handled, and when it fires it acts on that
\* connection only, which is not OPEN.
C18_TimeoutOnlyWhilePending ==
  /\ [](\A s \in timeouts : /\ s <= Len(socks)
                            /\ ~socks[s].opened
                            /\ socks[s].st \in {CONNECTING, CLOSING})
  /\ [][lastEvent'.op = "timeout"
        => /\ lastEvent'.sock \in timeouts
           /\ socks[lastEvent'.sock].st # OPEN
           /\ \A t \in 1..Len(socks) : t # lastEvent'.sock => socks'[t] = socks[t]]_vars

C18_Witness ==
  /\ lastEvent.op = "timeout" /\ lastEvent.sock >= 2
  /\ socks[lastEvent.sock].st = CLOSING /\ socks[lastEvent.sock].cause = "timeout"

\* C19: a delivered onreconnect carries the number of the failed cycle
\* (1, 2, 3, ... since the last open, which is retries + 1) and the delay of
\* the retry timer that is pending; retries, reconnectInterval and the timer
\* do not change while the onreconnect callback waits in the queue.
C19_ReconnectArgs ==
  /\ []((lastEvent.op = "deliver" /\ lastEvent.emits = <<"onreconnect">>)
        => /\ lastEvent.n = hist.failures
           /\ lastEvent.n = retries + 1
           /\ backoffTimers = <<lastEvent.ms>>)
  /\ [][(\E i \in 1..Len(deferred) : deferred[i].cb = "onreconnect")
        => UNCHANGED <<retries, reconnectInterval, backoffTimers>>]_vars

C19_Witness ==
  /\ lastEvent.op = "deliver" /\ lastEvent.emits = <<"onreconnect">>
  /\ lastEvent.n = 3 /\ lastEvent.ms > initialReconnectInterval

\* C20: at most one retry timer is pending, and while one is pending there is
\* no connection and forcedClose is false; forcedClose becomes true only when
\* none is pending.
C20_OneBackoffTimer ==
  /\ [](/\ Len(backoffTimers) <= 1
        /\ backoffTimers # <<>> => ws = Null /\ ~forcedClose)
  /\ [][(~forcedClose /\ forcedClose') => backoffTimers = <<>>]_vars

C20_Witness ==
  /\ backoffTimers # <<>> /\ ~forcedClose
  /\ lastEvent.op = "closeCall" /\ lastEvent.result = "noop"

====
